---- MODULE Spec2Model ----
(***************************************************************************)
(* Theme management of the portfolio site (src/assets/js/theme.js).        *)
(*                                                                         *)
(* The model follows one browser tab through its sessions: the script is   *)
(* evaluated, initTheme runs at once or at DOMContentLoaded, and then the  *)
(* public API (window.ThemeManager), clicks on a theme toggle and changes  *)
(* of the OS colour scheme are handled one at a time.  The only thing that *)
(* survives a session is the localStorage entry.                           *)
(*                                                                         *)
(* The second script (src/unnamed/part_001, "MAIN JAVASCRIPT") is modelled *)
(* by SpecApp: the mobile navigation and the contact form after init() has *)
(* run, driven by clicks, key presses, typing, submit events and timers.   *)
(***************************************************************************)
EXTENDS Integers, Sequences, FiniteSets, TLC

(***************************************************************************)
(* Values                                                                  *)
(***************************************************************************)

\* theme.js:14-18
THEMES == [SYSTEM |-> "system", LIGHT |-> "light", DARK |-> "dark"]

\* Object.values(THEMES)
ThemeValues == {THEMES.SYSTEM, THEMES.LIGHT, THEMES.DARK}

\* what localStorage.getItem gives for a key that was never written (null)
NoValue == "<null>"

\* no data-theme attribute on the document root
NoMarker == "<none>"

\* strings that are not a theme name; "" is the falsy one
OtherStrings == {"", "blue"}

\* what the store can hold under THEME_KEY
StoreValues == {NoValue} \cup ThemeValues \cup OtherStrings

\* what a caller can pass to ThemeManager.setTheme
SetThemeArgs == ThemeValues \cup OtherStrings \cup {NoValue}

\* what a toggle button shows before the script has touched it
FromMarkup == "<markup>"

VARIABLES
    store,               \* localStorage[THEME_KEY]
    currentTheme,        \* let currentTheme (theme.js:21)
    marker,              \* data-theme attribute of document.documentElement
    button,              \* the .theme-toggle button: shown icon and aria-label
    phase,               \* "start": script not evaluated; "loading": initTheme
                         \* waits for DOMContentLoaded; "ready": initTheme ran
    osDark,              \* the OS prefers the dark colour scheme
    hasMatchMedia,       \* window.matchMedia exists
    hasAddEventListener, \* MediaQueryList has addEventListener
    toggleDom,           \* which icons the toggle button has in the markup
    \* history of the step just taken
    last,                \* the operation just handled, its argument, store fault
    emitted,             \* themeChange events dispatched by that operation
    applyCalls,          \* applyTheme calls made by that operation
    \* history across steps
    cycleHist,           \* modes before each cycleTheme of the current run of
                         \* consecutive cycleTheme calls (at most one period)
    lastMutation,        \* the last setTheme(valid)/cycleTheme: resulting mode,
                         \* whether its store write went through, and whether
                         \* it was made in an earlier session
    failedSet,           \* mode of a setTheme whose store write failed, while
                         \* no later setTheme/cycleTheme call was made
    raised,              \* the operation just handled ended in an exception
    \* the second script: MobileNav and ContactForm
    navDom,              \* .mobile-menu-toggle and .mobile-nav both exist
    nav,                 \* MobileNav.isOpen, the nav's mobile-nav--open class,
                         \* the toggle's aria-expanded, body.style.overflow
    navTouched,          \* openMenu or closeMenu has run at least once
    form,                \* the contact form: field values, .form-error spans,
                         \* aria-invalid attributes, submit button, number of
                         \* success boxes on display
    pending,             \* originalText captured by each send timer not yet fired
    appLast              \* history: the event just handled by the second script

vars == <<store, currentTheme, marker, button, phase, osDark, hasMatchMedia,
          hasAddEventListener, toggleDom, last, emitted, applyCalls,
          cycleHist, lastMutation, failedSet, raised,
          navDom, nav, navTouched, form, pending, appLast>>

envVars == <<hasMatchMedia, hasAddEventListener, toggleDom>>

themeVars == <<store, currentTheme, marker, button, phase, osDark, hasMatchMedia,
               hasAddEventListener, toggleDom, last, emitted, applyCalls,
               cycleHist, lastMutation, failedSet, raised>>

appVars == <<navDom, nav, navTouched, form, pending, appLast>>

navVars == <<navDom, nav, navTouched>>

formVars == <<form, pending>>

(***************************************************************************)
(* Functions of theme.js                                                   *)
(***************************************************************************)

\* getSavedTheme that ignores the stored entry
getSavedThemeIgnoring(value, throws) == THEMES.SYSTEM

\* getSavedTheme: localStorage.getItem(THEME_KEY) || THEMES.SYSTEM, and
\* THEMES.SYSTEM when the access throws
getSavedTheme(value, throws) ==
    IF throws THEN THEMES.SYSTEM
    ELSE IF value = NoValue \/ value = "" THEN THEMES.SYSTEM
    ELSE value

\* saveTheme that never reaches the store
saveThemeDropped(value, theme, throws) == value

\* saveTheme: the store after localStorage.setItem(THEME_KEY, theme); a throw
\* is caught and leaves the entry as it was
saveTheme(value, theme, throws) ==
    IF throws THEN value ELSE theme

\* saveTheme without its try/catch: the exception of setItem gets out
saveThemeUncaught(throws) == throws

\* saveTheme: whether it ends in an exception; the catch swallows it
saveThemeRaises(throws) == FALSE

\* getSavedTheme: whether it ends in an exception; the catch swallows it
getSavedThemeRaises(throws) == FALSE

\* getSystemTheme
getSystemTheme(mm, dark) ==
    IF mm /\ dark THEN THEMES.DARK ELSE THEMES.LIGHT

\* applyTheme setting the attribute for "system" too
SetMarkerAlways(theme) == theme

\* applyTheme, first statement: the data-theme attribute after it
SetMarker(theme) ==
    IF theme = THEMES.SYSTEM THEN NoMarker ELSE theme

\* updateThemeToggleIcon for one button: the icon left visible
ShownIcon(cur, dom, mm, dark) ==
    IF cur = THEMES.SYSTEM
    THEN IF dom.systemIcon THEN "system"
         ELSE IF getSystemTheme(mm, dark) = THEMES.DARK THEN "moon" ELSE "sun"
    ELSE IF cur = THEMES.DARK THEN "moon"
    ELSE "sun"

\* updateThemeToggleIcon for one button: the aria-label, as the pair of modes
\* it names ("Using <using> theme, click to use <next> theme")
AriaLabel(cur) ==
    IF cur = THEMES.SYSTEM THEN [using |-> THEMES.SYSTEM, next |-> THEMES.LIGHT]
    ELSE IF cur = THEMES.LIGHT THEN [using |-> THEMES.LIGHT, next |-> THEMES.DARK]
    ELSE [using |-> THEMES.DARK, next |-> THEMES.SYSTEM]

\* updateThemeToggleIcon: a button lacking the sun or the moon icon is skipped
updateThemeToggleIcon(btn, cur, dom, mm, dark) ==
    IF ~dom.sunMoon THEN btn
    ELSE [icon |-> ShownIcon(cur, dom, mm, dark), label |-> AriaLabel(cur)]

\* dispatchEvent(new CustomEvent("themeChange", {detail: {theme}})): listeners
\* run synchronously, so an observer sees the page as it is at this statement
Dispatch(s, theme) ==
    [s EXCEPT !.events = Append(@, [theme      |-> theme,
                                    seenTheme  |-> s.cur,
                                    seenMarker |-> s.marker])]

\* applyTheme dispatching the event before it touches the page
applyThemeEarlyDispatch(s, theme, dom, mm, dark) ==
    LET s0 == Dispatch(s, theme)
        s1 == [s0 EXCEPT !.marker = SetMarker(theme)]
        s2 == [s1 EXCEPT !.cur = theme]
        s3 == [s2 EXCEPT !.btn = updateThemeToggleIcon(s2.btn, s2.cur, dom, mm, dark)]
    IN  [s3 EXCEPT !.calls = @ + 1]

\* applyTheme that also persists the theme it applies
applyThemePersisting(s, theme, dom, mm, dark) ==
    LET s1 == [s  EXCEPT !.marker = SetMarker(theme), !.store = theme]
        s2 == [s1 EXCEPT !.cur = theme]
        s3 == [s2 EXCEPT !.btn = updateThemeToggleIcon(s2.btn, s2.cur, dom, mm, dark)]
        s4 == Dispatch(s3, theme)
    IN  [s4 EXCEPT !.calls = @ + 1]

\* applyTheme on the page state s = [cur, marker, btn, events, calls, store,
\* raised]; it does not touch the store
applyTheme(s, theme, dom, mm, dark) ==
    LET s1 == [s  EXCEPT !.marker = SetMarker(theme)]
        s2 == [s1 EXCEPT !.cur = theme]
        s3 == [s2 EXCEPT !.btn = updateThemeToggleIcon(s2.btn, s2.cur, dom, mm, dark)]
        s4 == Dispatch(s3, theme)
    IN  [s4 EXCEPT !.calls = @ + 1]

\* cycleTheme going back from dark to light
NextThemeBounce(cur) ==
    IF cur = THEMES.SYSTEM THEN THEMES.LIGHT
    ELSE IF cur = THEMES.LIGHT THEN THEMES.DARK
    ELSE IF cur = THEMES.DARK THEN THEMES.LIGHT
    ELSE THEMES.SYSTEM

\* cycleTheme skipping light
NextThemeSkip(cur) ==
    IF cur = THEMES.SYSTEM THEN THEMES.DARK
    ELSE IF cur = THEMES.LIGHT THEN THEMES.DARK
    ELSE IF cur = THEMES.DARK THEN THEMES.SYSTEM
    ELSE THEMES.SYSTEM

\* cycleTheme: the switch on currentTheme
NextTheme(cur) ==
    IF cur = THEMES.SYSTEM THEN THEMES.LIGHT
    ELSE IF cur = THEMES.LIGHT THEN THEMES.DARK
    ELSE IF cur = THEMES.DARK THEN THEMES.SYSTEM
    ELSE THEMES.SYSTEM

\* setTheme without the check of its argument
ValidThemeUnchecked(theme) == TRUE

\* ThemeManager.setTheme: Object.values(THEMES).includes(theme)
ValidTheme(theme) == theme \in ThemeValues

\* the listener re-applying "system" whatever the mode
ListenerAppliesAlways(cur) == TRUE

\* the listener with its test inverted
ListenerAppliesInverted(cur) == cur # THEMES.SYSTEM

\* the prefers-color-scheme listener: if (currentTheme === THEMES.SYSTEM)
ListenerApplies(cur) == cur = THEMES.SYSTEM

\* initTheme: the change listener is added only if both exist
ListenerAdded(mm, ael) == mm /\ ael

\* ThemeManager.getTheme
getTheme == currentTheme

\* the theme the page is drawn in: the stylesheet follows data-theme, and the
\* prefers-color-scheme media query when the attribute is absent
EffectiveTheme ==
    IF marker = NoMarker THEN getSystemTheme(hasMatchMedia, osDark) ELSE marker

(***************************************************************************)
(* The page state an operation starts from and how it is written back      *)
(***************************************************************************)

Page == [cur |-> currentTheme, marker |-> marker, btn |-> button,
         events |-> <<>>, calls |-> 0, store |-> store, raised |-> FALSE]

\* the call saveTheme(theme) inside an operation
Save(s, theme, throws) ==
    [s EXCEPT !.store = saveTheme(s.store, theme, throws),
              !.raised = saveThemeRaises(throws)]

\* the call getSavedTheme() inside an operation
Read(s, throws) ==
    [s EXCEPT !.raised = getSavedThemeRaises(throws)]

Commit(s) ==
    /\ store' = s.store
    /\ raised' = s.raised
    /\ currentTheme' = s.cur
    /\ marker' = s.marker
    /\ button' = s.btn
    /\ emitted' = s.events
    /\ applyCalls' = s.calls

NoOp == [op |-> "none", arg |-> NoValue, fault |-> FALSE]

FreshButton == [icon |-> FromMarkup,
                label |-> [using |-> FromMarkup, next |-> FromMarkup]]

ToggleDoms == {[sunMoon |-> TRUE,  systemIcon |-> TRUE],
               [sunMoon |-> TRUE,  systemIcon |-> FALSE],
               [sunMoon |-> FALSE, systemIcon |-> FALSE]}

NoMutation == [mode |-> NoValue, saved |-> FALSE, prior |-> FALSE]

(***************************************************************************)
(* MobileNav (src/unnamed/part_001)                                        *)
(***************************************************************************)

\* where a click can land
ClickTargets == {"toggle", "link", "nav", "outside"}

\* the keys of a keydown event that matter: Escape and any other one
Keys == {"Escape", "Enter"}

\* this.nav.contains(e.target): the links are descendants of the nav
NavContains(target) == target \in {"link", "nav"}

\* this.toggle.contains(e.target)
ToggleContains(target) == target = "toggle"

\* the page before MobileNav has touched it: isOpen: false, menu closed,
\* aria-expanded as written in the markup
NavStart == [isOpen |-> FALSE, openClass |-> FALSE,
             ariaExpanded |-> FromMarkup, overflow |-> ""]

\* openMenu
openMenu(n) ==
    [isOpen |-> TRUE, openClass |-> TRUE,
     ariaExpanded |-> "true", overflow |-> "hidden"]

\* closeMenu that leaves the body scroll lock in place
closeMenuKeepLock(n) ==
    [isOpen |-> FALSE, openClass |-> FALSE,
     ariaExpanded |-> "false", overflow |-> n.overflow]

\* closeMenu
closeMenu(n) ==
    [isOpen |-> FALSE, openClass |-> FALSE,
     ariaExpanded |-> "false", overflow |-> ""]

\* toggleMenu
toggleMenu(n) == IF n.isOpen THEN closeMenu(n) ELSE openMenu(n)

\* the outside-click test without the toggle
OutsideClickClosesIgnoringToggle(n, target) ==
    n.isOpen /\ ~NavContains(target)

\* the document click listener: its condition for closing the menu
OutsideClickCloses(n, target) ==
    n.isOpen /\ ~NavContains(target) /\ ~ToggleContains(target)

\* the document keydown listener: its condition for closing the menu
EscapeCloses(n, key) == key = "Escape" /\ n.isOpen

\* the listeners of the clicked element run before the document's (bubbling)
ElementClick(n, target) ==
    IF target = "toggle" THEN toggleMenu(n)
    ELSE IF target = "link" THEN closeMenu(n)
    ELSE n

\* the whole dispatch of one click
ClickDispatch(n, target) ==
    LET n1 == ElementClick(n, target)
    IN  IF OutsideClickCloses(n1, target) THEN closeMenu(n1) ELSE n1

\* whether the dispatch of one click calls openMenu or closeMenu
ClickTouches(n, target) ==
    \/ target \in {"toggle", "link"}
    \/ OutsideClickCloses(ElementClick(n, target), target)

(***************************************************************************)
(* ContactForm (src/unnamed/part_001)                                      *)
(***************************************************************************)

\* the fields validate() looks at
FieldNames == {"name", "email", "message"}

\* most send timers that may be waiting, plus success boxes on display
MaxInFlight == 2

\* texts typed into the name and message fields, as sequences of characters
TextSamples == {<<>>, <<" ">>, <<" ", "a", " ">>}

\* texts typed into the email field
EmailSamples == {<<>>,
                 <<"a", "@", "a">>,
                 <<"a", "@", "a", ".", "a">>,
                 <<"a", " ", "@", "a", ".", "a">>}

\* what FormData(this.form) can hold at a submit event
FormDatas == [name : TextSamples, email : EmailSamples, message : TextSamples]

\* the fields after form.reset(): the markup gives them no default value
EmptyFields == [name |-> <<>>, email |-> <<>>, message |-> <<>>]

\* the submit button's text in the markup
ButtonMarkupText == "Send Message"

\* \s of a JavaScript regular expression and of String.prototype.trim
IsSpace(c) == c = " "

RECURSIVE TrimStart(_)
TrimStart(str) ==
    IF str = <<>> THEN str
    ELSE IF IsSpace(Head(str)) THEN TrimStart(Tail(str))
    ELSE str

RECURSIVE TrimEnd(_)
TrimEnd(str) ==
    IF str = <<>> THEN str
    ELSE IF IsSpace(str[Len(str)]) THEN TrimEnd(SubSeq(str, 1, Len(str) - 1))
    ELSE str

\* String.prototype.trim
trim(str) == TrimEnd(TrimStart(str))

\* !value for a string: only the empty string is falsy
Falsy(str) == str = <<>>

\* [^\s@]
PlainChar(c) == ~IsSpace(c) /\ c # "@"

\* /^[^\s@]+@[^\s@]+\.[^\s@]+$/ as an automaton: state q after reading c.
\* 0 start, 1 in the local part, 2 after "@", 3 in the first domain part,
\* 4 after its ".", 5 in the last part (accepting)
EmailDelta(q, c) ==
    IF q = 0 THEN (IF PlainChar(c) THEN {1} ELSE {})
    ELSE IF q = 1 THEN (IF PlainChar(c) THEN {1} ELSE IF c = "@" THEN {2} ELSE {})
    ELSE IF q = 2 THEN (IF PlainChar(c) THEN {3} ELSE {})
    ELSE IF q = 3 THEN (IF c = "." THEN {3, 4} ELSE IF PlainChar(c) THEN {3} ELSE {})
    ELSE IF q = 4 THEN (IF PlainChar(c) THEN {5} ELSE {})
    ELSE (IF PlainChar(c) THEN {5} ELSE {})

RECURSIVE EmailRun(_, _)
EmailRun(qs, str) ==
    IF str = <<>> THEN qs
    ELSE EmailRun(UNION {EmailDelta(q, Head(str)) : q \in qs}, Tail(str))

\* isValidEmail
isValidEmail(email) == 5 \in EmailRun({0}, email)

\* showError: one more .form-error span next to the field, aria-invalid="true"
showError(f, fieldName) ==
    [f EXCEPT !.errors[fieldName] = @ + 1, !.ariaInvalid[fieldName] = TRUE]

\* validate(data): the form afterwards and the value returned
validate(f, data) ==
    LET f0 == [f EXCEPT !.errors = [x \in FieldNames |-> 0]]
        badName == Falsy(data.name) \/ trim(data.name) = <<>>
        f1 == IF badName THEN showError(f0, "name") ELSE f0
        badEmail == Falsy(data.email) \/ ~isValidEmail(data.email)
        f2 == IF badEmail THEN showError(f1, "email") ELSE f1
        badMessage == Falsy(data.message) \/ trim(data.message) = <<>>
        f3 == IF badMessage THEN showError(f2, "message") ELSE f2
    IN  [form |-> f3, isValid |-> ~(badName \/ badEmail \/ badMessage)]

\* handleSubmit: the form and the waiting send timers afterwards
handleSubmit(f, timers) ==
    LET v == validate(f, f.fields)
    IN  IF ~v.isValid
        THEN [form |-> v.form, pending |-> timers, isValid |-> FALSE]
        ELSE [form |-> [v.form EXCEPT !.btn = [text |-> "Sending...",
                                                disabled |-> TRUE]],
              pending |-> Append(timers, v.form.btn.text),
              isValid |-> TRUE]

\* the callback of handleSubmit's setTimeout, originalText being what the
\* timer captured: showSuccess, form.reset(), the button restored
sendDone(f, originalText) ==
    [f EXCEPT !.success = @ + 1,
              !.fields = EmptyFields,
              !.btn = [text |-> originalText, disabled |-> FALSE]]

\* showSuccess, its two nested timers (5000 ms, then 300 ms): the oldest
\* success box fades and is removed
successExpire(f) == [f EXCEPT !.success = @ - 1]

\* the form as the markup gives it
FormStart == [fields |-> EmptyFields,
              errors |-> [x \in FieldNames |-> 0],
              ariaInvalid |-> [x \in FieldNames |-> FALSE],
              btn |-> [text |-> ButtonMarkupText, disabled |-> FALSE],
              success |-> 0]

NoEvent == [op |-> "none", arg |-> "none"]

\* the second script's state while the theme script is looked at
AppIdle ==
    /\ navDom = TRUE
    /\ nav = NavStart
    /\ navTouched = FALSE
    /\ form = FormStart
    /\ pending = <<>>
    /\ appLast = NoEvent

(***************************************************************************)
(* Initial state: the tab before theme.js is evaluated                     *)
(***************************************************************************)

Init ==
    /\ store \in StoreValues
    /\ currentTheme = THEMES.SYSTEM
    /\ marker = NoMarker
    /\ button = FreshButton
    /\ phase = "start"
    /\ osDark \in BOOLEAN
    /\ hasMatchMedia \in BOOLEAN
    /\ hasAddEventListener \in BOOLEAN
    /\ hasAddEventListener => hasMatchMedia
    /\ toggleDom \in ToggleDoms
    /\ last = NoOp
    /\ emitted = <<>>
    /\ applyCalls = 0
    /\ cycleHist = <<>>
    /\ lastMutation = NoMutation
    /\ failedSet = NoValue
    /\ raised = FALSE
    /\ AppIdle

(***************************************************************************)
(* Operations                                                              *)
(***************************************************************************)

\* initTheme: apply the saved theme, add the listeners
initTheme(readThrows) ==
    LET s0 == Read(Page, readThrows) IN
    /\ Commit(IF s0.raised THEN s0
              ELSE applyTheme(s0, getSavedTheme(store, readThrows),
                              toggleDom, hasMatchMedia, osDark))
    /\ phase' = "ready"
    /\ cycleHist' = <<>>
    /\ UNCHANGED <<osDark, envVars, lastMutation, failedSet, appVars>>

\* the script is evaluated: initTheme now, or at DOMContentLoaded when
\* document.readyState is "loading"; window.ThemeManager is exposed
ScriptLoad ==
    /\ phase = "start"
    /\ \E loading \in BOOLEAN :
         IF loading
         THEN /\ phase' = "loading"
              /\ last' = [op |-> "defer", arg |-> NoValue, fault |-> FALSE]
              /\ emitted' = <<>>
              /\ applyCalls' = 0
              /\ raised' = FALSE
              /\ UNCHANGED <<store, currentTheme, marker, button, osDark,
                             envVars, cycleHist, lastMutation, failedSet,
                             appVars>>
         ELSE \E readThrows \in BOOLEAN :
              /\ last' = [op |-> "init", arg |-> NoValue, fault |-> readThrows]
              /\ initTheme(readThrows)

\* DOMContentLoaded runs the deferred initTheme
DOMContentLoaded ==
    /\ phase = "loading"
    /\ \E readThrows \in BOOLEAN :
         /\ last' = [op |-> "init", arg |-> NoValue, fault |-> readThrows]
         /\ initTheme(readThrows)

\* ThemeManager.setTheme(theme)
SetTheme ==
    /\ phase \in {"loading", "ready"}
    /\ \E theme \in SetThemeArgs, writeThrows \in BOOLEAN :
         IF ValidTheme(theme)
         THEN /\ LET s0 == Save(Page, theme, writeThrows) IN
                   Commit(IF s0.raised THEN s0
                          ELSE applyTheme(s0, theme, toggleDom, hasMatchMedia, osDark))
              /\ last' = [op |-> "setTheme", arg |-> theme, fault |-> writeThrows]
              /\ lastMutation' = [mode |-> theme, saved |-> ~writeThrows, prior |-> FALSE]
              /\ failedSet' = IF writeThrows THEN theme ELSE NoValue
              /\ cycleHist' = <<>>
              /\ UNCHANGED <<phase, osDark, envVars, appVars>>
         ELSE /\ ~writeThrows
              /\ Commit(Page)
              /\ last' = [op |-> "setTheme", arg |-> theme, fault |-> FALSE]
              /\ failedSet' = NoValue
              /\ cycleHist' = <<>>
              /\ UNCHANGED <<phase, osDark, envVars, lastMutation, appVars>>

\* cycleTheme
cycleTheme(op, writeThrows) ==
    LET nextTheme == NextTheme(currentTheme)
        s0 == Save(Page, nextTheme, writeThrows) IN
    /\ Commit(IF s0.raised THEN s0
              ELSE applyTheme(s0, nextTheme, toggleDom, hasMatchMedia, osDark))
    /\ last' = [op |-> op, arg |-> NoValue, fault |-> writeThrows]
    /\ lastMutation' = [mode |-> nextTheme, saved |-> ~writeThrows, prior |-> FALSE]
    /\ failedSet' = NoValue
    /\ cycleHist' = IF Len(cycleHist) < Cardinality(ThemeValues)
                    THEN Append(cycleHist, currentTheme)
                    ELSE Append(Tail(cycleHist), currentTheme)
    /\ UNCHANGED <<phase, osDark, envVars, appVars>>

\* ThemeManager.cycleTheme()
CycleTheme ==
    /\ phase \in {"loading", "ready"}
    /\ \E writeThrows \in BOOLEAN : cycleTheme("cycleTheme", writeThrows)

\* a click inside a .theme-toggle element; the document click listener is
\* added by initTheme
ToggleClick ==
    /\ phase = "ready"
    /\ \E writeThrows \in BOOLEAN : cycleTheme("click", writeThrows)

\* the OS colour scheme changes; the change listener, if added, runs
OSChange ==
    /\ phase \in {"loading", "ready"}
    /\ hasMatchMedia
    /\ osDark' = ~osDark
    /\ last' = [op |-> "osChange", arg |-> NoValue, fault |-> FALSE]
    /\ IF /\ phase = "ready"
          /\ ListenerAdded(hasMatchMedia, hasAddEventListener)
          /\ ListenerApplies(currentTheme)
       THEN Commit(applyTheme(Page, THEMES.SYSTEM, toggleDom, hasMatchMedia, osDark'))
       ELSE Commit(Page)
    /\ cycleHist' = <<>>
    /\ UNCHANGED <<phase, envVars, lastMutation, failedSet, appVars>>

\* the tab is closed or reloaded: a new session starts from the stored entry
Restart ==
    /\ phase \in {"loading", "ready"}
    /\ phase' = "start"
    /\ currentTheme' = THEMES.SYSTEM
    /\ marker' = NoMarker
    /\ button' = FreshButton
    /\ osDark' \in BOOLEAN
    /\ hasMatchMedia' \in BOOLEAN
    /\ hasAddEventListener' \in BOOLEAN
    /\ hasAddEventListener' => hasMatchMedia'
    /\ toggleDom' \in ToggleDoms
    /\ last' = NoOp
    /\ emitted' = <<>>
    /\ applyCalls' = 0
    /\ cycleHist' = <<>>
    /\ failedSet' = NoValue
    /\ raised' = FALSE
    /\ lastMutation' = IF lastMutation.mode = NoValue THEN lastMutation
                       ELSE [lastMutation EXCEPT !.prior = TRUE]
    /\ UNCHANGED <<store, appVars>>

Next ==
    \/ ScriptLoad
    \/ DOMContentLoaded
    \/ SetTheme
    \/ CycleTheme
    \/ ToggleClick
    \/ OSChange
    \/ Restart

Spec == Init /\ [][Next]_vars

(***************************************************************************)
(* The second script: initial state and events                             *)
(***************************************************************************)

\* the theme script's state while the second script is looked at
ThemeIdle ==
    /\ store = NoValue
    /\ currentTheme = THEMES.SYSTEM
    /\ marker = NoMarker
    /\ button = FreshButton
    /\ phase = "start"
    /\ osDark = FALSE
    /\ hasMatchMedia = TRUE
    /\ hasAddEventListener = TRUE
    /\ toggleDom = [sunMoon |-> TRUE, systemIcon |-> TRUE]
    /\ last = NoOp
    /\ emitted = <<>>
    /\ applyCalls = 0
    /\ cycleHist = <<>>
    /\ lastMutation = NoMutation
    /\ failedSet = NoValue
    /\ raised = FALSE

\* the page after init() of the second script: MobileNav.init has added its
\* listeners if toggle and nav exist, ContactForm.init its submit listener
AppInit ==
    /\ ThemeIdle
    /\ navDom \in BOOLEAN
    /\ nav = NavStart
    /\ navTouched = FALSE
    /\ form = FormStart
    /\ pending = <<>>
    /\ appLast = NoEvent

\* a click somewhere in the page: the clicked element's listeners, then the
\* document's
NavClick ==
    \E target \in ClickTargets :
        /\ appLast' = [op |-> "click", arg |-> target]
        /\ IF navDom
           THEN /\ nav' = ClickDispatch(nav, target)
                /\ navTouched' = (navTouched \/ ClickTouches(nav, target))
           ELSE UNCHANGED <<nav, navTouched>>
        /\ UNCHANGED <<navDom, formVars, themeVars>>

\* a key is pressed: the document keydown listener
NavKeyDown ==
    \E key \in Keys :
        /\ appLast' = [op |-> "keydown", arg |-> key]
        /\ IF navDom /\ EscapeCloses(nav, key)
           THEN /\ nav' = closeMenu(nav)
                /\ navTouched' = TRUE
           ELSE UNCHANGED <<nav, navTouched>>
        /\ UNCHANGED <<navDom, formVars, themeVars>>

\* the visitor has filled in the fields and a submit event is handled
FormSubmit ==
    \E data \in FormDatas :
        LET r == handleSubmit([form EXCEPT !.fields = data], pending) IN
        /\ r.isValid => Len(pending) + form.success < MaxInFlight
        /\ form' = r.form
        /\ pending' = r.pending
        /\ appLast' = [op |-> "submit", arg |-> IF r.isValid THEN "valid" ELSE "invalid"]
        /\ UNCHANGED <<navVars, themeVars>>

\* the 1500 ms timer of the oldest send fires
SendDone ==
    /\ pending # <<>>
    /\ form' = sendDone(form, Head(pending))
    /\ pending' = Tail(pending)
    /\ appLast' = [op |-> "sendDone", arg |-> "none"]
    /\ UNCHANGED <<navVars, themeVars>>

\* the timers of the oldest success box fire: it fades and is removed
SuccessExpire ==
    /\ form.success > 0
    /\ form' = successExpire(form)
    /\ appLast' = [op |-> "expire", arg |-> "none"]
    /\ UNCHANGED <<pending, navVars, themeVars>>

AppNext ==
    \/ NavClick
    \/ NavKeyDown
    \/ FormSubmit
    \/ SendDone
    \/ SuccessExpire

SpecApp == AppInit /\ [][AppNext]_vars

TypeOK ==
    /\ store \in StoreValues
    /\ currentTheme \in StoreValues \ {NoValue, ""}
    /\ marker \in (StoreValues \ {NoValue, "", THEMES.SYSTEM}) \cup {NoMarker}
    /\ phase \in {"start", "loading", "ready"}
    /\ osDark \in BOOLEAN
    /\ toggleDom \in ToggleDoms
    /\ applyCalls \in 0..1
    /\ Len(cycleHist) <= Cardinality(ThemeValues)

(***************************************************************************)
(* Properties                                                              *)
(***************************************************************************)

\* the operation just handled called initTheme, and the store could be read
Initialised == last.op = "init" /\ ~last.fault

\* the marker the stylesheet contract asks for in mode m
MarkerFor(m) == IF m = THEMES.SYSTEM THEN NoMarker ELSE m

\* C1: when the stored entry is missing or is a string other than "system",
\* "light", "dark", initTheme leaves getTheme() = "system" and the document
\* root without a data-theme attribute.
C1_MalformedFallsBackToSystem ==
    (last.op = "init" /\ store \notin ThemeValues)
        => (getTheme = THEMES.SYSTEM /\ marker = NoMarker)

\* C2: setTheme(m) with m one of the three modes leaves getTheme() = m;
\* setTheme with any other argument changes neither getTheme(), the marker
\* nor the stored entry, and dispatches no themeChange.
C2_SetThemeValidates ==
    [][ last'.op = "setTheme" =>
          IF last'.arg \in ThemeValues
          THEN getTheme' = last'.arg
          ELSE /\ getTheme' = getTheme
               /\ marker' = marker
               /\ store' = store
               /\ emitted' = <<>> ]_vars

C2_Witness ==
    /\ last.op = "setTheme"
    /\ last.arg = "blue"
    /\ phase = "ready"
    /\ currentTheme = THEMES.DARK
    /\ marker = THEMES.DARK

\* C3: after a setTheme(m) whose store write failed, getTheme() = m until the
\* next setTheme or cycleTheme call, whatever else is handled in between.
C3_FailedWriteKeepsMode ==
    failedSet # NoValue => getTheme = failedSet

\* C4: once initTheme has run, the document root has no data-theme attribute
\* exactly when getTheme() = "system", and otherwise has one equal to
\* getTheme(); so the theme the page is drawn in depends on the mode and the
\* OS signal only.
C4_MarkerFollowsMode ==
    phase = "ready" =>
        /\ (marker = NoMarker) <=> (getTheme = THEMES.SYSTEM)
        /\ marker # NoMarker => marker = getTheme
        /\ EffectiveTheme = IF getTheme = THEMES.SYSTEM
                            THEN getSystemTheme(hasMatchMedia, osDark)
                            ELSE getTheme

C4_Witness ==
    /\ phase = "ready"
    /\ last.op = "click"
    /\ Len(cycleHist) > 0
    /\ cycleHist[Len(cycleHist)] = THEMES.DARK
    /\ currentTheme = THEMES.SYSTEM
    /\ marker = NoMarker

\* C5: after initTheme, whenever the mode is "system" and the OS colour scheme
\* changes, one themeChange carrying "system" is dispatched, getTheme() stays
\* "system", the root stays without marker and the page follows the new OS
\* value.
C5_SystemModeFollowsOS ==
    [][ (last'.op = "osChange" /\ phase = "ready" /\ getTheme = THEMES.SYSTEM) =>
          /\ Len(emitted') = 1
          /\ emitted'[1].theme = THEMES.SYSTEM
          /\ getTheme' = THEMES.SYSTEM
          /\ marker' = NoMarker
          /\ EffectiveTheme' = IF osDark' THEN THEMES.DARK ELSE THEMES.LIGHT ]_vars

\* C5, amended: the same, in a browser where initTheme could add the change
\* listener (window.matchMedia exists and its MediaQueryList has
\* addEventListener).
C5_SystemModeFollowsOSWhenListening ==
    [][ ( /\ last'.op = "osChange"
          /\ phase = "ready"
          /\ hasMatchMedia /\ hasAddEventListener
          /\ getTheme = THEMES.SYSTEM ) =>
          /\ Len(emitted') = 1
          /\ emitted'[1].theme = THEMES.SYSTEM
          /\ getTheme' = THEMES.SYSTEM
          /\ marker' = NoMarker
          /\ EffectiveTheme' = IF osDark' THEN THEMES.DARK ELSE THEMES.LIGHT ]_vars

C5_Witness ==
    /\ last.op = "osChange"
    /\ phase = "ready"
    /\ hasMatchMedia /\ hasAddEventListener
    /\ currentTheme = THEMES.SYSTEM
    /\ osDark
    /\ EffectiveTheme = THEMES.DARK
    /\ emitted = <<[theme |-> THEMES.SYSTEM, seenTheme |-> THEMES.SYSTEM,
                    seenMarker |-> NoMarker]>>

\* C6: when the mode is "light" or "dark" and the OS colour scheme changes, no
\* themeChange is dispatched and getTheme(), the marker and the stored entry
\* stay as they are.
C6_ExplicitModeIgnoresOS ==
    [][ (last'.op = "osChange" /\ getTheme \in {THEMES.LIGHT, THEMES.DARK}) =>
          /\ emitted' = <<>>
          /\ getTheme' = getTheme
          /\ marker' = marker
          /\ store' = store ]_vars

C6_Witness ==
    /\ last.op = "osChange"
    /\ phase = "ready"
    /\ hasAddEventListener
    /\ currentTheme = THEMES.DARK
    /\ osDark = FALSE

\* C7: three cycleTheme calls in a row, started in any of the three modes,
\* bring getTheme() back to the mode they started from.
C7_CyclePeriodThree ==
    (Len(cycleHist) = Cardinality(ThemeValues) /\ cycleHist[1] \in ThemeValues)
        => getTheme = cycleHist[1]

C7_Witness ==
    /\ Len(cycleHist) = Cardinality(ThemeValues)
    /\ cycleHist = <<THEMES.DARK, THEMES.SYSTEM, THEMES.LIGHT>>
    /\ currentTheme = THEMES.DARK

\* C8: initTheme with "dark" (or "light") stored yields that mode and a marker
\* equal to it; with "system" stored it yields "system" and no marker.
C8_InitRestoresStoredMode ==
    (Initialised /\ store \in ThemeValues) =>
        /\ getTheme = store
        /\ store \in {THEMES.LIGHT, THEMES.DARK} => marker = store
        /\ store = THEMES.SYSTEM => marker = NoMarker

C8_Witness ==
    /\ Initialised
    /\ store = THEMES.DARK
    /\ currentTheme = THEMES.DARK
    /\ marker = THEMES.DARK

\* C9: when the last setTheme(valid)/cycleTheme of an earlier session left
\* getTheme() = m and its write reached the store, initTheme of a new session
\* (reading the store) yields getTheme() = m.
C9_PreferenceSurvivesRestart ==
    (Initialised /\ lastMutation.prior /\ lastMutation.saved)
        => getTheme = lastMutation.mode

C9_Witness ==
    /\ Initialised
    /\ lastMutation.prior
    /\ lastMutation.saved
    /\ lastMutation.mode = THEMES.LIGHT
    /\ currentTheme = THEMES.LIGHT

\* the operation just handled is one that calls applyTheme
CallsApplyTheme ==
    \/ last.op \in {"init", "cycleTheme", "click"}
    \/ last.op = "setTheme" /\ last.arg \in ThemeValues
    \/ /\ last.op = "osChange"
       /\ phase = "ready"
       /\ ListenerAdded(hasMatchMedia, hasAddEventListener)
       /\ currentTheme = THEMES.SYSTEM

\* C10: every applyTheme call dispatches exactly one themeChange, and the
\* observer receiving it finds getTheme() equal to the theme it carries and
\* the marker already matching it.
C10_OneEventAfterMutation ==
    /\ Len(emitted) = applyCalls
    /\ CallsApplyTheme => Len(emitted) = 1
    /\ \A i \in 1..Len(emitted) :
         /\ emitted[i].seenTheme = emitted[i].theme
         /\ emitted[i].seenMarker = MarkerFor(emitted[i].theme)
         /\ getTheme = emitted[i].theme

C10_Witness ==
    /\ last.op = "osChange"
    /\ Len(emitted) = 1
    /\ emitted[1].theme = THEMES.SYSTEM
    /\ emitted[1].seenMarker = NoMarker
    /\ osDark

\* the themeChange event an observer should get for theme t
EventFor(t) == [theme |-> t, seenTheme |-> t, seenMarker |-> MarkerFor(t)]

\* the fixed order system -> light -> dark -> system
CycleOrder ==
    [m \in ThemeValues |->
        IF m = THEMES.SYSTEM THEN THEMES.LIGHT
        ELSE IF m = THEMES.LIGHT THEN THEMES.DARK
        ELSE THEMES.SYSTEM]

\* the operation just handled is a cycleTheme call, from the API or a click
Cycled(l) == l.op \in {"cycleTheme", "click"}

\* C11: no operation ends in an exception; when its store access throws,
\* initTheme yields "system" without marker, and setTheme(valid mode) and
\* cycleTheme give the mode, marker and themeChange event they give with a
\* working store.
C11_StoreFailureDoesNotBlock ==
    [][ /\ ~raised'
        /\ last'.fault =>
             /\ last'.op = "init" =>
                  /\ getTheme' = THEMES.SYSTEM
                  /\ marker' = NoMarker
                  /\ emitted' = <<EventFor(THEMES.SYSTEM)>>
             /\ last'.op = "setTheme" =>
                  /\ getTheme' = last'.arg
                  /\ marker' = MarkerFor(last'.arg)
                  /\ emitted' = <<EventFor(last'.arg)>>
             /\ (Cycled(last') /\ getTheme \in ThemeValues) =>
                  /\ getTheme' = CycleOrder[getTheme]
                  /\ marker' = MarkerFor(CycleOrder[getTheme])
                  /\ emitted' = <<EventFor(CycleOrder[getTheme])>> ]_vars

C11_Witness ==
    /\ last.op = "click"
    /\ last.fault
    /\ ~raised
    /\ store = NoValue
    /\ currentTheme = THEMES.DARK
    /\ marker = THEMES.DARK
    /\ emitted = <<EventFor(THEMES.DARK)>>

\* C12: in every reachable state getTheme() is one of "system", "light",
\* "dark".
C12_ModeIsOneOfThree ==
    getTheme \in ThemeValues

\* C13: whatever is written to the store is one of "system", "light", "dark":
\* a step that changes the stored entry leaves one of the three in it.
C13_OnlyModeNamesWritten ==
    [][ store' # store => store' \in ThemeValues ]_vars

C13_Witness ==
    /\ last.op = "cycleTheme"
    /\ ~last.fault
    /\ Len(cycleHist) > 0
    /\ cycleHist[Len(cycleHist)] = "blue"
    /\ store = THEMES.SYSTEM

\* C14: cycleTheme, called from the API or by a click on a toggle, moves the
\* mode to its successor in system -> light -> dark -> system, sets the marker
\* for it, dispatches one themeChange carrying it and, when the write goes
\* through, leaves the stored entry equal to getTheme().
C14_CycleStepsToSuccessor ==
    [][ (Cycled(last') /\ getTheme \in ThemeValues) =>
          /\ getTheme' = CycleOrder[getTheme]
          /\ marker' = MarkerFor(getTheme')
          /\ emitted' = <<EventFor(getTheme')>>
          /\ ~last'.fault => store' = getTheme' ]_vars

C14_Witness ==
    /\ last.op = "click"
    /\ ~last.fault
    /\ Len(cycleHist) > 0
    /\ cycleHist[Len(cycleHist)] = THEMES.LIGHT
    /\ currentTheme = THEMES.DARK
    /\ store = THEMES.DARK
    /\ marker = THEMES.DARK

\* C15: the stored entry is changed only by setTheme with a valid mode and by
\* cycleTheme; initTheme and the OS change handler leave it as it is.
C15_OnlyMutationsWrite ==
    [][ /\ store' # store =>
             \/ last'.op = "setTheme" /\ last'.arg \in ThemeValues
             \/ Cycled(last')
        /\ last'.op \in {"init", "defer", "osChange"} => store' = store ]_vars

C15_Witness ==
    /\ last.op = "osChange"
    /\ phase = "ready"
    /\ applyCalls = 1
    /\ currentTheme = THEMES.SYSTEM
    /\ store = THEMES.DARK

\* the icon the claim asks for in mode m
IconFor(m) ==
    IF m = THEMES.DARK THEN "moon"
    ELSE IF m = THEMES.LIGHT THEN "sun"
    ELSE IF toggleDom.systemIcon THEN "system"
    ELSE IF hasMatchMedia /\ osDark THEN "moon" ELSE "sun"

\* C16: once initTheme has run, a toggle button with sun and moon icons shows
\* the one icon that belongs to the current mode (in system mode without a
\* system icon: moon when the OS is dark, sun otherwise), and its aria-label
\* names the current mode and the mode cycleTheme selects next.
C16_ToggleShowsMode ==
    (phase = "ready" /\ toggleDom.sunMoon) =>
        /\ getTheme \in ThemeValues => button.icon = IconFor(getTheme)
        /\ button.label.using = getTheme
        /\ button.label.next = NextTheme(getTheme)

\* C17: once openMenu or closeMenu has run, MobileNav.isOpen is true exactly
\* when the nav has the class mobile-nav--open, the toggle's aria-expanded is
\* "true" and body.style.overflow is "hidden"; when it is false the class is
\* gone, aria-expanded is "false" and the overflow is cleared.
C17_NavStateConsistent ==
    navTouched =>
        /\ nav.isOpen <=> nav.openClass
        /\ nav.isOpen => (nav.ariaExpanded = "true" /\ nav.overflow = "hidden")
        /\ ~nav.isOpen => (nav.ariaExpanded = "false" /\ nav.overflow = "")

C17_Witness ==
    /\ navTouched
    /\ appLast = [op |-> "click", arg |-> "outside"]
    /\ ~nav.isOpen
    /\ nav.ariaExpanded = "false"
    /\ nav.overflow = ""

\* C18: one click on the mobile-menu toggle flips the menu exactly once,
\* although the toggle's listener and the document's outside-click listener
\* both run for it; a click outside nav and toggle, a click on a nav link and
\* Escape leave the menu closed.
C18_ToggleFlipsOnce ==
    [][ navDom =>
          /\ appLast' = [op |-> "click", arg |-> "toggle"]
               => nav'.isOpen = ~nav.isOpen
          /\ ( \/ appLast' = [op |-> "click", arg |-> "outside"]
               \/ appLast' = [op |-> "click", arg |-> "link"]
               \/ appLast' = [op |-> "keydown", arg |-> "Escape"] )
               => ~nav'.isOpen ]_vars

C18_Witness ==
    /\ navDom
    /\ appLast = [op |-> "click", arg |-> "toggle"]
    /\ nav.isOpen
    /\ nav.openClass
    /\ nav.overflow = "hidden"

\* C19: for any sequence of submit events, also one handled while an earlier
\* send is still pending, whenever no send is pending the submit button is
\* enabled and shows the label it had before any submission.
C19_ButtonRestoredWhenIdle ==
    pending = <<>> =>
        form.btn = [text |-> ButtonMarkupText, disabled |-> FALSE]

\* a text with nothing but white space in it
Blank(str) == \A i \in 1..Len(str) : str[i] = " "

\* local@domain.tld without spaces: one "@", something before it, and after it
\* a "." with something on both sides
EmailShape(str) ==
    \E i \in 1..Len(str) :
        /\ str[i] = "@"
        /\ i > 1
        /\ \A k \in 1..Len(str) : k # i => str[k] \notin {" ", "@"}
        /\ \E j \in (i + 2)..(Len(str) - 1) : str[j] = "."

\* the field x of data fails validation
Fails(x, data) ==
    IF x = "email" THEN ~EmailShape(data.email)
    ELSE Blank(data[x])

\* C20: validate() returns true exactly when name and message are non-blank
\* and email has the form local@domain.tld; it leaves at most one error
\* message per field; and after a submit a field carries an invalid mark
\* (error message or aria-invalid) exactly when it failed that validation.
C20_MarksReflectLatestValidation ==
    [][ appLast'.op = "submit" =>
          /\ (appLast'.arg = "valid") <=>
                 (\A x \in FieldNames : ~Fails(x, form'.fields))
          /\ \A x \in FieldNames :
                 /\ form'.errors[x] <= 1
                 /\ (form'.errors[x] > 0 \/ form'.ariaInvalid[x])
                        <=> Fails(x, form'.fields) ]_vars

====
